---- MODULE Spec2Model ----
(***************************************************************************)
(* UBI agent-based simulation: Policy, Person, Household, Environment and  *)
(* the run_sim driver (src/ubi_agent_sim).                                  *)
(*                                                                         *)
(* Number representation.  The program computes in Python floats.  Here a  *)
(* real quantity x (hours, yen amounts derived from hours, happiness, the  *)
(* poverty rate) is the integer floor(x * Scale); every multiplication by  *)
(* a decimal constant and every division rounds down to that resolution,   *)
(* as a float operation rounds to its own.  Wages, the UBI amount, the     *)
(* basic need and the poverty line are whole yen; the tax rate is a whole  *)
(* percentage.  Person.age is drawn at construction and never read again;  *)
(* it is left out of the person record.                                    *)
(***************************************************************************)
EXTENDS Integers, Sequences, FiniteSets, TLC

\* ------------------------------------------------------------------ bounds
MaxYears == 2
MaxStepsPerYear == 2
NHouseholds == 2

\* ------------------------------------------------------- program constants
PersonsPerHousehold == 2
WageFloor == 600
InitWorkHours == 40
InitSaving == 0
InitHappiness == 5
BasicNeed == 150000
MaxWorkHours == 60
WeeksPerMonth == 4
PovertyLine == 200000
DefaultUbi == 100000
DefaultTaxPct == 20

Scale == 10 * 10 * 10

\* Wages np.random.normal may return (whole yen), one of them below the floor.
DrawnWages == {300, 1500}

\* Policy() as constructed by Environment.__init__.
DefaultPolicy == [ubi_amount |-> DefaultUbi, income_tax_rate |-> DefaultTaxPct]

\* Policy values a caller may construct: the default, UBI equal to the basic
\* need, no UBI with a confiscatory tax, and a negative UBI with a tax rate
\* above 1 (accepted silently by Policy).
Policies ==
    { DefaultPolicy,
      [ubi_amount |-> 150000, income_tax_rate |-> 20],
      [ubi_amount |-> 0, income_tax_rate |-> 100],
      [ubi_amount |-> -150000, income_tax_rate |-> 120] }

Pids == 0 .. (NHouseholds * PersonsPerHousehold - 1)
Hids == 0 .. (NHouseholds - 1)

\* --------------------------------------------------------------- arithmetic
Max(a, b) == IF a >= b THEN a ELSE b
Min(a, b) == IF a <= b THEN a ELSE b

\* floor(x * a / b) for b > 0, computed without leaving 32 bits.
MulDiv(x, a, b) == (x \div b) * a + ((x % b) * a) \div b

MinOf(S) == CHOOSE x \in S : \A y \in S : x <= y

\* -------------------------------------------------------------- Environment
\* if p.hourly_wage < 600: p.hourly_wage = 600
ClampWageNone(w) == w
ClampWage(w) == IF w < WageFloor THEN WageFloor ELSE w

NewPerson(pid, hid, drawn) ==
    [ id |-> pid,
      hourly_wage |-> ClampWage(drawn),
      work_hours |-> InitWorkHours * Scale,
      saving |-> InitSaving * Scale,
      household_id |-> hid,
      happiness |-> InitHappiness * Scale ]

MemberIds(hid) ==
    [k \in 1 .. PersonsPerHousehold |-> hid * PersonsPerHousehold + (k - 1)]

NewHousehold(hid) ==
    [ id |-> hid, member_ids |-> MemberIds(hid), income |-> 0,
      poverty_line |-> PovertyLine ]

\* ------------------------------------------------------------------- Person
Gap(pol, basic_need) == Max(0, basic_need - pol.ubi_amount)

\* gap / (hourly_wage * 4 + 1e-6), for hourly_wage > 0.  With n = gap * Scale
\* and d = hourly_wage * 4, the quotient q = n \div d is below 10^6, so
\* q * 1e-6 < 1 and n / (d + 1e-6) falls below q exactly when d divides n.
TargetHoursNoWeeks(gap, hourly_wage) ==
    LET n == gap * Scale
        d == hourly_wage
        q == n \div d
    IN  IF n % d = 0 /\ q > 0 THEN q - 1 ELSE q
TargetHours(gap, hourly_wage) ==
    LET n == gap * Scale
        d == hourly_wage * WeeksPerMonth
        q == n \div d
    IN  IF n % d = 0 /\ q > 0 THEN q - 1 ELSE q

\* max(0, min(60, 0.7 * work_hours + 0.3 * target_hours))
SmoothNoCap(work_hours, target_hours) ==
    Max(0, MulDiv(work_hours, 7, 10) + MulDiv(target_hours, 3, 10))
SmoothSwapped(work_hours, target_hours) ==
    Max(0, Min(MaxWorkHours * Scale,
               MulDiv(work_hours, 3, 10) + MulDiv(target_hours, 7, 10)))
Smooth(work_hours, target_hours) ==
    Max(0, Min(MaxWorkHours * Scale,
               MulDiv(work_hours, 7, 10) + MulDiv(target_hours, 3, 10)))

IncomeLabor(hourly_wage, work_hours) == hourly_wage * work_hours * WeeksPerMonth

IncomeTotal(income_labor, pol) == income_labor + pol.ubi_amount * Scale

\* income_total * (1 - policy.income_tax_rate)
DisposableIncome(income_total, pol) ==
    MulDiv(income_total, 100 - pol.income_tax_rate, 100)

\* self.saving += disposable_income * 0.2
SavingAssigned(saving, disposable_income) == MulDiv(disposable_income, 2, 10)
SavingAfter(saving, disposable_income) == saving + MulDiv(disposable_income, 2, 10)

\* 5 + 0.00001 * income_total - 0.05 * max(0, work_hours - 40)
Happiness(income_total, work_hours) ==
    5 * Scale + MulDiv(income_total, 1, 100000)
              - MulDiv(Max(0, work_hours - 40 * Scale), 5, 100)

\* Person.step(policy, macro_state, basic_need): the person after the call.
PersonStep(p, pol, basic_need) ==
    LET gap == Gap(pol, basic_need)
        target_hours == TargetHours(gap, p.hourly_wage)
        wh == Smooth(p.work_hours, target_hours)
        income_labor == IncomeLabor(p.hourly_wage, wh)
        income_total == IncomeTotal(income_labor, pol)
        disposable_income == DisposableIncome(income_total, pol)
    IN  [ p EXCEPT !.work_hours = wh,
                   !.saving = SavingAfter(p.saving, disposable_income),
                   !.happiness = Happiness(income_total, wh) ]

\* ---------------------------------------------------------------- Household
RECURSIVE SumLabor(_, _)
SumLabor(ids, ps) ==
    IF ids = << >> THEN 0
    ELSE IncomeLabor(ps[Head(ids)].hourly_wage, ps[Head(ids)].work_hours)
         + SumLabor(Tail(ids), ps)

RECURSIVE SumTotal(_, _)
SumTotal(ids, ps) ==
    IF ids = << >> THEN 0
    ELSE IncomeLabor(ps[Head(ids)].hourly_wage, ps[Head(ids)].work_hours)
         + DefaultUbi * Scale + SumTotal(Tail(ids), ps)

\* Household.aggregate(persons): the household after the call.
AggregateWithUbi(h, ps) == [h EXCEPT !.income = SumTotal(h.member_ids, ps)]
Aggregate(h, ps) == [h EXCEPT !.income = SumLabor(h.member_ids, ps)]

IsPoor(h) == h.income < h.poverty_line * Scale

\* ------------------------------------------------------------------- runner
\* total_steps = years * steps_per_year
TotalStepsOffByOne(y, s) == y * s + 1
TotalSteps(y, s) == y * s

\* sum(1 for h in env.households.values() if h.is_poor)
PoorCountPersons(hs) ==
    Cardinality({pid \in Pids : \E hid \in DOMAIN hs :
                    /\ IsPoor(hs[hid])
                    /\ \E k \in DOMAIN hs[hid].member_ids : hs[hid].member_ids[k] = pid})
PoorCount(hs) == Cardinality({hid \in DOMAIN hs : IsPoor(hs[hid])})

\* poor_count / len(env.households)
PovertyRate(hs) == (PoorCount(hs) * Scale) \div Cardinality(DOMAIN hs)

\* -------------------------------------------------------------------- state
VARIABLES
    policy,         \* env.policy
    persons,        \* env.persons: pid -> Person
    households,     \* env.households: hid -> Household
    years,          \* run_sim argument
    steps_per_year, \* run_sim argument
    t,              \* loop variable of run_sim: iterations completed
    poverty_rates,  \* run_sim's list
    pc,             \* "loop", "persons", "households", "measure", "done"
    pending,        \* persons the loop of Environment.step has yet to update
    hpending,       \* households the loop of Environment.step has yet to aggregate
    step_calls,     \* history: calls of Environment.step so far
    stepped,        \* history: pid -> calls of Person.step so far
    aggregated,     \* history: hid -> calls of Household.aggregate so far
    pre             \* history: env.persons when the current step was called

vars == << policy, persons, households, years, steps_per_year, t, poverty_rates,
           pc, pending, hpending, step_calls, stepped, aggregated, pre >>

\* Environment(): n_households households of persons_per_household persons,
\* person ids dense in creation order.
InitEnvironment ==
    \E drawn \in [Pids -> DrawnWages] :
        /\ persons = [pid \in Pids |->
                         NewPerson(pid, pid \div PersonsPerHousehold, drawn[pid])]
        /\ households = [hid \in Hids |-> NewHousehold(hid)]

InitRunner ==
    /\ years \in 1 .. MaxYears
    /\ steps_per_year \in 1 .. MaxStepsPerYear
    /\ t = 0
    /\ poverty_rates = << >>
    /\ pc = "loop"
    /\ pending = {}
    /\ hpending = {}
    /\ step_calls = 0
    /\ stepped = [pid \in Pids |-> 0]
    /\ aggregated = [hid \in Hids |-> 0]
    /\ pre = persons

\* run_sim as written: Environment() with the default Policy().
Init ==
    /\ policy = DefaultPolicy
    /\ InitEnvironment
    /\ InitRunner

\* The same driver over an Environment whose policy the caller has chosen.
InitPolicy ==
    /\ policy \in Policies
    /\ InitEnvironment
    /\ InitRunner

\* ------------------------------------------------------------------ actions
\* for t in range(total_steps): env.step()   -- the loop test succeeds and
\* Environment.step is entered.
CallStep ==
    /\ pc = "loop"
    /\ t < TotalSteps(years, steps_per_year)
    /\ pc' = "persons"
    /\ pending' = DOMAIN persons
    /\ step_calls' = step_calls + 1
    /\ pre' = persons
    /\ UNCHANGED << policy, persons, households, years, steps_per_year, t,
                    poverty_rates, hpending, stepped, aggregated >>

\* p.step(self.policy, macro_state, basic_need) for the person pid of env.persons.
UpdatePersonShared(ps, pid) ==
    LET partner == IF pid % PersonsPerHousehold = 0 THEN pid + 1 ELSE pid - 1
    IN  [ps EXCEPT ![pid] =
            PersonStep([ps[pid] EXCEPT !.work_hours = ps[partner].work_hours],
                       policy, BasicNeed)]
UpdatePerson(ps, pid) == [ps EXCEPT ![pid] = PersonStep(ps[pid], policy, BasicNeed)]

\* One iteration of "for p in self.persons.values()"; leaving the loop enters
\* "for h in self.households.values()".
StepPersonAndAggregate(pid) ==
    /\ pc = "persons"
    /\ pid \in pending
    /\ persons' = UpdatePerson(persons, pid)
    /\ stepped' = [stepped EXCEPT ![pid] = @ + 1]
    /\ pending' = pending \ {pid}
    /\ LET hid == persons[pid].household_id
       IN  /\ households' = [households EXCEPT ![hid] = Aggregate(@, persons')]
           /\ aggregated' = [aggregated EXCEPT ![hid] = step_calls]
    /\ IF pending' = {}
         THEN pc' = "measure"
         ELSE pc' = pc
    /\ UNCHANGED << policy, years, steps_per_year, t, poverty_rates,
                    hpending, step_calls, pre >>
StepPerson(pid) ==
    /\ pc = "persons"
    /\ pid \in pending
    /\ persons' = UpdatePerson(persons, pid)
    /\ stepped' = [stepped EXCEPT ![pid] = @ + 1]
    /\ pending' = pending \ {pid}
    /\ IF pending' = {}
         THEN /\ pc' = "households"
              /\ hpending' = DOMAIN households
         ELSE UNCHANGED << pc, hpending >>
    /\ UNCHANGED << policy, households, years, steps_per_year, t, poverty_rates,
                    step_calls, aggregated, pre >>

\* Dictionaries iterate in insertion order, which is ascending id.
StepNextPerson ==
    /\ pending # {}
    /\ StepPerson(MinOf(pending))

\* The update loop taken in an arbitrary order.
StepAnyPerson ==
    \E pid \in pending : StepPerson(pid)

\* One iteration of "for h in self.households.values(): h.aggregate(self.persons)";
\* leaving the loop returns from Environment.step.
StepHousehold ==
    /\ pc = "households"
    /\ hpending # {}
    /\ LET hid == MinOf(hpending)
       IN  /\ households' = [households EXCEPT ![hid] = Aggregate(@, persons)]
           /\ aggregated' = [aggregated EXCEPT ![hid] = @ + 1]
           /\ hpending' = hpending \ {hid}
    /\ pc' = IF hpending' = {} THEN "measure" ELSE pc
    /\ UNCHANGED << policy, persons, years, steps_per_year, t, poverty_rates,
                    pending, step_calls, stepped, pre >>

\* poor_count, poverty_rate, poverty_rates.append(poverty_rate); next iteration.
Measure ==
    /\ pc = "measure"
    /\ poverty_rates' = Append(poverty_rates, PovertyRate(households))
    /\ t' = t + 1
    /\ pc' = "loop"
    /\ UNCHANGED << policy, persons, households, years, steps_per_year,
                    pending, hpending, step_calls, stepped, aggregated, pre >>

\* The range is exhausted: return np.array(poverty_rates).
Finish ==
    /\ pc = "loop"
    /\ t >= TotalSteps(years, steps_per_year)
    /\ pc' = "done"
    /\ UNCHANGED << policy, persons, households, years, steps_per_year, t,
                    poverty_rates, pending, hpending, step_calls, stepped,
                    aggregated, pre >>

Next ==
    \/ CallStep
    \/ StepNextPerson
    \/ StepHousehold
    \/ Measure
    \/ Finish

NextAnyOrder ==
    \/ CallStep
    \/ StepAnyPerson
    \/ StepHousehold
    \/ Measure
    \/ Finish

Spec == Init /\ [][Next]_vars
SpecPolicy == InitPolicy /\ [][Next]_vars
SpecAnyOrder == Init /\ [][NextAnyOrder]_vars
\* run_sim is a sequential program: it keeps executing until it returns.
SpecFair == Init /\ [][Next]_vars /\ WF_vars(Next)

\* =================================================================== claims
\* The persons whose household_id is hid, and their labor income summed from
\* the current person records.
MembersOf(hid) == {pid \in Pids : persons[pid].household_id = hid}

RECURSIVE LaborOver(_)
LaborOver(S) ==
    IF S = {} THEN 0
    ELSE LET pid == CHOOSE x \in S : TRUE
         IN  persons[pid].hourly_wage * persons[pid].work_hours * 4
             + LaborOver(S \ {pid})

StepReturned == pc \in {"measure", "loop", "done"} /\ step_calls > 0

\* C1: once Environment.step has returned, every household's income is the sum
\* of hourly_wage * work_hours * 4 over exactly its members, taken on the
\* persons' post-step state; no UBI and no saving enters it.
C1_AggregationConsistency ==
    StepReturned =>
        \A hid \in Hids :
            /\ {households[hid].member_ids[k] : k \in DOMAIN households[hid].member_ids}
                   = MembersOf(hid)
            /\ households[hid].income = LaborOver(MembersOf(hid))

C1_Witness ==
    /\ pc = "measure"
    /\ step_calls = 2
    /\ \E h1, h2 \in Hids :
          /\ households[h1].income > 0
          /\ households[h1].income # households[h2].income
          /\ households[h1].income = LaborOver(MembersOf(h1))

\* C2: run_sim(years, steps_per_year) returns, and when it does it has called
\* Environment.step exactly years * steps_per_year times and holds exactly that
\* many poverty rates; each rate is appended right after the step of the same
\* number, computed from the households as that step left them.
C2_ExactlyTotalSteps ==
    /\ <>(pc = "done")
    /\ [](step_calls <= years * steps_per_year)
    /\ [](pc = "done" => /\ step_calls = years * steps_per_year
                         /\ Len(poverty_rates) = years * steps_per_year)
    /\ [][poverty_rates' # poverty_rates =>
            /\ Len(poverty_rates') = step_calls
            /\ \A hid \in Hids : aggregated[hid] = step_calls
            /\ poverty_rates' =
                 Append(poverty_rates,
                        (Cardinality({hid \in Hids :
                             households[hid].income < PovertyLine * Scale}) * Scale)
                        \div NHouseholds)]_vars

C2_Witness ==
    /\ pc = "done"
    /\ years = 2
    /\ steps_per_year = 2
    /\ Len(poverty_rates) = 4
    /\ step_calls = 4

\* C3: every poverty rate in the list lies in [0, 1]; it is the number of poor
\* households divided by the number of households, which is not zero.
C3_RateInUnitInterval ==
    /\ Cardinality(DOMAIN households) # 0
    /\ \A k \in DOMAIN poverty_rates :
          /\ 0 <= poverty_rates[k]
          /\ poverty_rates[k] <= 1 * Scale
    /\ (pc = "loop" /\ t > 0) =>
          poverty_rates[t] =
             (Cardinality({hid \in Hids :
                  households[hid].income < PovertyLine * Scale}) * Scale)
             \div Cardinality(DOMAIN households)

C3_Witness ==
    \E k \in DOMAIN poverty_rates :
        /\ 0 < poverty_rates[k]
        /\ poverty_rates[k] < 1 * Scale

\* C4: every person's work_hours lies in [0, 60] after construction and after
\* any number of steps, under every policy.
C4_WorkHoursBounded ==
    \A pid \in Pids :
        /\ 0 <= persons[pid].work_hours
        /\ persons[pid].work_hours <= 60 * Scale

\* The cap is reached: the smoothed value exceeded 60 and was cut back.
C4_Witness ==
    \E pid \in Pids :
        /\ stepped[pid] >= 1
        /\ persons[pid].work_hours = 60 * Scale
        /\ MulDiv(pre[pid].work_hours, 7, 10)
             + MulDiv(TargetHours(Gap(policy, BasicNeed), pre[pid].hourly_wage), 3, 10)
           > 60 * Scale

SavingPrecondition ==
    /\ policy.income_tax_rate <= 100
    /\ policy.ubi_amount >= 0
    /\ \A pid \in Pids : persons[pid].hourly_wage >= 0

\* C5: with a tax rate of at most 1, a non-negative UBI and non-negative wages,
\* no step lowers a person's saving, and saving, which starts at 0, is never
\* negative.
C5_SavingMonotone ==
    /\ [](SavingPrecondition => \A pid \in Pids : persons[pid].saving >= 0)
    /\ [][SavingPrecondition =>
            \A pid \in Pids : persons'[pid].saving >= persons[pid].saving]_vars

C5_Witness ==
    /\ SavingPrecondition
    /\ \E pid \in Pids :
          /\ stepped[pid] = 2
          /\ pre[pid].saving > 0
          /\ persons[pid].saving > pre[pid].saving

\* C6: every hourly_wage is at least 600 from construction on, and no step of
\* the program writes it.
C6_WageFloorAndFrame ==
    /\ [](\A pid \in Pids : persons[pid].hourly_wage >= 600)
    /\ [][\A pid \in Pids : persons'[pid].hourly_wage = persons[pid].hourly_wage]_vars

\* A wage drawn below the floor was raised to it, and the person has stepped.
C6_Witness ==
    \E pid \in Pids :
        /\ persons[pid].hourly_wage = 600
        /\ 300 \in DrawnWages
        /\ stepped[pid] >= 2

\* 40 * 0.7^k at the model's resolution: 40 * Scale * 7^k / 10^k, an integer
\* up to k = 4 and rounded down beyond.
GeometricHours(k) ==
    IF k <= 4 THEN 4 * (7 ^ k) * (10 ^ (4 - k))
    ELSE (4 * (7 ^ k)) \div (10 ^ (k - 4))

\* C7: with ubi_amount = 150000 the gap and the target hours are 0 at every
\* step, so after k steps work_hours is 40 * 0.7^k (exactly while that value is
\* representable, and within the accumulated rounding of the k multiplications
\* after that); each step multiplies work_hours by 0.7, work_hours and labor
\* income strictly decrease, and the UBI part of income_total stays 150000.
C7_GeometricDecay ==
    /\ [](policy.ubi_amount = 150000 =>
            \A pid \in Pids :
                /\ Gap(policy, BasicNeed) = 0
                /\ TargetHours(Gap(policy, BasicNeed), persons[pid].hourly_wage) = 0
                /\ persons[pid].work_hours <= GeometricHours(stepped[pid])
                /\ persons[pid].work_hours >= GeometricHours(stepped[pid]) - 4
                /\ stepped[pid] <= 4 =>
                      persons[pid].work_hours = GeometricHours(stepped[pid])
                /\ persons[pid].work_hours > 0
                /\ IncomeTotal(IncomeLabor(persons[pid].hourly_wage,
                                           persons[pid].work_hours), policy)
                   - IncomeLabor(persons[pid].hourly_wage, persons[pid].work_hours)
                   = 150000 * Scale)
    /\ [][policy.ubi_amount = 150000 =>
            /\ policy' = policy
            /\ \A pid \in Pids :
                  stepped'[pid] # stepped[pid] =>
                      /\ persons'[pid].work_hours < persons[pid].work_hours
                      /\ 10 * persons'[pid].work_hours <= 7 * persons[pid].work_hours
                      /\ 7 * persons[pid].work_hours < 10 * persons'[pid].work_hours + 10
                      /\ persons'[pid].hourly_wage * persons'[pid].work_hours * 4
                         < persons[pid].hourly_wage * persons[pid].work_hours * 4]_vars

C7_Witness ==
    /\ policy.ubi_amount = 150000
    /\ \E pid \in Pids :
          /\ stepped[pid] = 4
          /\ persons[pid].work_hours = 9604

\* C8: within a step no household is aggregated before every person has been
\* updated for that step, and a poverty rate is computed only when every
\* household has been aggregated in the step just made, from incomes that equal
\* the members' current labor income.
C8_UpdateAllThenAggregateAll ==
    /\ []((step_calls > 0 /\ \E hid \in Hids : aggregated[hid] = step_calls) =>
             \A pid \in Pids : stepped[pid] = step_calls)
    /\ [][/\ households' # households =>
                /\ pending = {}
                /\ \A pid \in Pids : stepped[pid] = step_calls
          /\ poverty_rates' # poverty_rates =>
                /\ step_calls = t + 1
                /\ \A pid \in Pids : stepped[pid] = step_calls
                /\ \A hid \in Hids :
                      /\ aggregated[hid] = step_calls
                      /\ households[hid].income = LaborOver(MembersOf(hid))]_vars

C8_Witness ==
    /\ pc = "measure"
    /\ step_calls = 2
    /\ \A hid \in Hids : aggregated[hid] = 2
    /\ \A pid \in Pids : stepped[pid] = 2 /\ persons[pid] # pre[pid]

\* The person loop of Environment.step run in dictionary order over the ids S.
RECURSIVE UpdateInOrder(_, _)
UpdateInOrder(ps, S) ==
    IF S = {} THEN ps
    ELSE UpdateInOrder(UpdatePerson(ps, MinOf(S)), S \ {MinOf(S)})

\* C9: whatever order the persons are updated in, every person updated so far
\* is in the state the dictionary-order loop gives that person, the others are
\* untouched, and the household incomes aggregated afterwards are those of the
\* dictionary-order loop.
C9_OrderIndependent ==
    \A inOrder \in {UpdateInOrder(pre, Pids)} :
        /\ pc = "persons" =>
              \A pid \in Pids :
                  persons[pid] = IF pid \in pending THEN pre[pid] ELSE inOrder[pid]
        /\ pc \in {"households", "measure"} => persons = inOrder
        /\ pc = "measure" =>
              \A hid \in Hids :
                  households[hid].income = SumLabor(MemberIds(hid), inOrder)

\* The first person of the dictionary is updated last, in the second step.
C9_Witness ==
    /\ pc = "persons"
    /\ step_calls = 2
    /\ pending = {0}
    /\ \A pid \in Pids \ {0} : persons[pid] # pre[pid]

\* C10: under the default policy a household's aggregated income never rises
\* from one step to the next, a household poor after a step is poor after every
\* later one, and the recorded poverty rates never fall.
C10_PovertyNeverRecedes ==
    /\ [][\A hid \in Hids :
             aggregated[hid] >= 1 =>
                 /\ households'[hid].income <= households[hid].income
                 /\ IsPoor(households[hid]) => IsPoor(households'[hid])]_vars
    /\ [](\A k, l \in DOMAIN poverty_rates :
             k <= l => poverty_rates[k] <= poverty_rates[l])

C10_Witness ==
    /\ Len(poverty_rates) = 4
    /\ poverty_rates[1] < poverty_rates[3]
    /\ poverty_rates[3] < poverty_rates[4]
    /\ \E hid \in Hids : IsPoor(households[hid]) /\ aggregated[hid] = 4

====
